---- MODULE Spec2Model ----
(***************************************************************************)
(* Model of the GitHub-certification fetchers.                             *)
(*                                                                         *)
(*   fetch_country.py : one country's paginated fetch, the per-user        *)
(*                      external-badge lookup, and the CSV write.          *)
(*   fetch_data.py    : the orchestrator that runs one subprocess per      *)
(*                      country on a pool of max_workers threads.          *)
(*                                                                         *)
(* Three specifications share the variables:                               *)
(*   Spec     - a command-line run of fetch_country.py                     *)
(*   SpecOrch - a run of fetch_data.py; a unit is its subprocess outcome   *)
(*   SpecUnit - a run of fetch_data.py over one country whose subprocess   *)
(*              is the fetch_country.py run of Spec                        *)
(***************************************************************************)
EXTENDS Integers, Sequences, FiniteSets, TLC

\* ------------------------------------------------------------------ bounds
MaxUsers == 3        \* users the directory lists for one country
MaxBadges == 1       \* badges in one external-badge payload

\* --------------------------------------------------------------- constants
NoId == 0            \* user.get('id') is None (or falsy)
Absent == -1         \* the record carries no 'badge_count' key

\* ------------------------------------------------------------ remote data
\* A user object of a directory page.  object = FALSE is an element of the
\* 'data' array that is not a JSON object: user.get raises on it.
UserRecords ==
    { [name |-> "a", id |-> 1,    badge_count |-> 2,      object |-> TRUE],
      [name |-> "b", id |-> 2,    badge_count |-> Absent, object |-> TRUE],
      [name |-> "c", id |-> NoId, badge_count |-> 1,      object |-> TRUE],
      [name |-> "d", id |-> NoId, badge_count |-> Absent, object |-> TRUE],
      [name |-> "x", id |-> NoId, badge_count |-> Absent, object |-> FALSE] }

SeqsUpTo(S, n) == UNION { [1..k -> S] : k \in 0..n }

\* A directory response: a failure (transport error, HTTP error status,
\* unparsable body) or a payload whose 'data' array is users.
DirFailures == { "transport", "http", "parse" }

\* The answers to a page request while the directory has n more users to list
DirResponses(n) ==
    { [kind |-> k, users |-> <<>>] : k \in DirFailures }
      \cup { [kind |-> "ok", users |-> us] : us \in SeqsUpTo(UserRecords, n) }

\* A badge of the external-badge payload; badge_name is kept as its words.
Badges ==
    { [issuer_name |-> "Microsoft", badge_name |-> <<"GitHub", "Foundations">>],
      [issuer_name |-> "Microsoft", badge_name |-> <<"Azure", "Fundamentals">>],
      [issuer_name |-> "Credly",    badge_name |-> <<"GitHub", "Actions">>] }

ExtFailures == { "timeout", "http", "parse" }

ExtResponses ==
    { [kind |-> k, data |-> <<>>] : k \in ExtFailures }
      \cup { [kind |-> "ok", data |-> d] : d \in SeqsUpTo(Badges, MaxBadges) }

\* ------------------------------------------------------- fetch_country.py
VARIABLES
    argc,          \* len(sys.argv)
    pc,            \* position of the fetch_country.py process
    page,          \* fetch_country_data: page
    all_users,     \* fetch_country_data: all_users
    users,         \* fetch_country_data: users of the page being processed
    idx,           \* position of the for loop in users (1-based)
    requested,     \* page numbers requested so far, in order
    responses,     \* directory responses received so far, in order
    lookups,       \* external lookups completed so far, in order
    outstanding,   \* network requests issued and not yet answered
    file,          \* rows of the CSV file, <<>> while not written
    fileWrites,    \* number of times the CSV file was opened for writing
    exitCode       \* sys.exit status of fetch_country.py, -1 while running

cvars == << argc, pc, page, all_users, users, idx, requested, responses,
            lookups, outstanding, file, fileWrites, exitCode >>

\* ----------------------------------------------------------- fetch_data.py
VARIABLES
    countries,        \* main: countries, the result of get_all_countries()
    opc,              \* position of the main thread of fetch_data.py
    queue,            \* executor: submitted countries no worker has taken
    phase,            \* per country: "new", "queued", "running", "done"
    alive,            \* countries whose subprocess is running
    ended,            \* per country: "no", or "zero" once its subprocess
                      \*   exited with status 0, or "other" once its
                      \*   subprocess.run call ended in any other way
    failedEnd,        \* how the subprocess.run call of the unit that
                      \*   failed last ended
    reported,         \* main, line 84: country and error of the last
                      \*   failure printed
    success_count,    \* main: success_count
    failed_countries, \* main: failed_countries
    orchExit          \* sys.exit status of fetch_data.py, -1 while running

ovars == << countries, opc, queue, phase, alive, ended, failedEnd, reported,
            success_count, failed_countries, orchExit >>

\* ------------------------------------------------------------ output files
VARIABLES
    map_keys,         \* the keys of CONTINENT_MAP, each a sequence of characters
    names,            \* get_all_countries(): the names enumerated, <<>> before
    output_file       \* save_to_csv: the [country, path] pairs of the files
                      \*   opened for writing so far

nvars == << map_keys, names, output_file >>

vars == << cvars, ovars, nvars >>

\* 'GitHub' in badge_name
HasGitHub(badge_name) == \E k \in 1..Len(badge_name) : badge_name[k] = "GitHub"

RECURSIVE CountGitHub(_)
CountGitHub(data) ==
    IF data = <<>> THEN 0
    ELSE (IF Head(data).issuer_name = "Microsoft" /\ HasGitHub(Head(data).badge_name)
            THEN 1 ELSE 0) + CountGitHub(Tail(data))

\* A bug: the except clause re-raises instead of returning 0.
fetch_github_external_badges_reraises(resp) ==
    IF resp.kind = "ok" THEN [raised |-> FALSE, value |-> CountGitHub(resp.data)]
    ELSE [raised |-> TRUE, value |-> 0]

\* fetch_github_external_badges: the count, or 0 on any exception; nothing
\* is raised to the caller.
fetch_github_external_badges(resp) ==
    IF resp.kind = "ok" THEN [raised |-> FALSE, value |-> CountGitHub(resp.data)]
    ELSE [raised |-> FALSE, value |-> 0]

\* user.get('badge_count', 0)
GetBadgeCount(user) == IF user.badge_count = Absent THEN 0 ELSE user.badge_count

\* A bug: the external count replaces the primary count.
AddExternalOnly(user, external_count) == external_count

\* line 66: user.get('badge_count', 0) + external_count
AddExternal(user, external_count) == GetBadgeCount(user) + external_count

\* A bug: the page number is not advanced.
NextPageSame(p) == p

\* line 70: page += 1
NextPage(p) == p + 1

\* A bug: the page replaces what was accumulated.
ExtendReplaces(all, us) == us

\* line 68: all_users.extend(users)
Extend(all, us) == all \o us

\* A bug: a lookup is made for a user without an id as well.
HasIdAlways(user) == TRUE

\* lines 63-64: user_id = user.get('id'); if user_id:
HasId(user) == user.id # NoId

\* The for loop over users from position k up to its next stop: the next
\* external lookup ("lookup"), a record that raises ("raise"), or the end
\* of the page ("end").
RECURSIVE ForUsers(_, _)
ForUsers(us, k) ==
    IF k > Len(us) THEN [stop |-> "end", at |-> k]
    ELSE IF ~us[k].object THEN [stop |-> "raise", at |-> k]
    ELSE IF HasId(us[k]) THEN [stop |-> "lookup", at |-> k]
    ELSE ForUsers(us, k + 1)

\* Users the directory has listed on the pages received so far
RECURSIVE Listed(_)
Listed(rs) == IF rs = <<>> THEN 0 ELSE Len(Head(rs).users) + Listed(Tail(rs))

InitCountry ==
    /\ argc \in {1, 2}
    /\ pc = "main"
    /\ page = 1
    /\ all_users = <<>>
    /\ users = <<>>
    /\ idx = 0
    /\ requested = <<>>
    /\ responses = <<>>
    /\ lookups = <<>>
    /\ outstanding = 0
    /\ file = <<>>
    /\ fileWrites = 0
    /\ exitCode = -1

\* No country name is being enumerated
NoNames ==
    /\ map_keys = {}
    /\ names = <<>>
    /\ output_file = {}

\* No fetch_country.py process exists
NoProcess ==
    /\ argc = 0
    /\ pc = "none"
    /\ page = 1
    /\ all_users = <<>>
    /\ users = <<>>
    /\ idx = 0
    /\ requested = <<>>
    /\ responses = <<>>
    /\ lookups = <<>>
    /\ outstanding = 0
    /\ file = <<>>
    /\ fileWrites = 0
    /\ exitCode = -1

\* main, lines 102-106: usage and exit 1 when the argument is missing
MainUsage ==
    /\ pc = "main"
    /\ argc < 2
    /\ pc' = "exit"
    /\ exitCode' = 1
    /\ UNCHANGED << argc, page, all_users, users, idx, requested, responses,
                    lookups, outstanding, file, fileWrites >>
    /\ UNCHANGED << ovars, nvars >>

\* main, lines 108-116, into fetch_country_data up to the while loop
MainFetch ==
    /\ pc = "main"
    /\ argc >= 2
    /\ pc' = "loop"
    /\ all_users' = <<>>
    /\ page' = 1
    /\ UNCHANGED << argc, users, idx, requested, responses, lookups,
                    outstanding, file, fileWrites, exitCode >>
    /\ UNCHANGED << ovars, nvars >>

\* requests.get of the directory page
RequestPage ==
    /\ pc = "loop"
    /\ pc' = "dirWait"
    /\ requested' = Append(requested, page)
    /\ outstanding' = outstanding + 1
    /\ UNCHANGED << argc, page, all_users, users, idx, responses, lookups,
                    file, fileWrites, exitCode >>
    /\ UNCHANGED << ovars, nvars >>

\* Every record of the page is an object (a record that is not raises on .get)
AllObjects(us) == \A k \in 1..Len(us) : us[k].object

\* A bug: the loop moves on to the next page without the external lookups.
ContinueSkipsLookups(us, k) ==
    /\ users' = us
    /\ idx' = Len(us) + 1
    /\ outstanding' = 0
    /\ IF AllObjects(us)
         THEN /\ pc' = "loop"
              /\ all_users' = Extend(all_users, us)
              /\ page' = NextPage(page)
         ELSE /\ pc' = "save"
              /\ UNCHANGED << page, all_users >>

\* A bug: the users processed before the record that raises are kept.
ContinueKeepsPrefix(us, k) ==
    LET s == ForUsers(us, k) IN
    /\ users' = us
    /\ idx' = s.at
    /\ CASE s.stop = "lookup" ->
              /\ pc' = "extWait"
              /\ outstanding' = 1
              /\ UNCHANGED << page, all_users >>
         [] s.stop = "raise" ->
              /\ pc' = "save"
              /\ outstanding' = 0
              /\ all_users' = Extend(all_users, SubSeq(us, 1, s.at - 1))
              /\ UNCHANGED page
         [] s.stop = "end" ->
              /\ pc' = "loop"
              /\ outstanding' = 0
              /\ all_users' = Extend(all_users, us)
              /\ page' = NextPage(page)

\* The rest of the loop body from position k of the for loop, in a page
\* whose records so far are us.
Continue(us, k) ==
    LET s == ForUsers(us, k) IN
    /\ users' = us
    /\ idx' = s.at
    /\ CASE s.stop = "lookup" ->
              /\ pc' = "extWait"
              /\ outstanding' = 1
              /\ UNCHANGED << page, all_users >>
         [] s.stop = "raise" ->
              /\ pc' = "save"
              /\ outstanding' = 0
              /\ UNCHANGED << page, all_users >>
         [] s.stop = "end" ->
              /\ pc' = "loop"
              /\ outstanding' = 0
              /\ all_users' = Extend(all_users, us)
              /\ page' = NextPage(page)

\* A bug: a failed directory request is not caught and ends the process.
ReceivePageRaises ==
    /\ pc = "dirWait"
    /\ \E resp \in DirResponses(MaxUsers - Listed(responses)) :
         /\ responses' = Append(responses, resp)
         /\ IF resp.kind # "ok"
              THEN /\ pc' = "exit"
                   /\ exitCode' = 1
                   /\ outstanding' = 0
                   /\ UNCHANGED << page, all_users, users, idx >>
              ELSE /\ exitCode' = exitCode
                   /\ IF resp.users = <<>>
                        THEN /\ pc' = "save"
                             /\ outstanding' = 0
                             /\ UNCHANGED << page, all_users, users, idx >>
                        ELSE Continue(resp.users, 1)
    /\ UNCHANGED << argc, requested, lookups, file, fileWrites >>
    /\ UNCHANGED << ovars, nvars >>

\* The directory answers (or the request raises)
ReceivePage ==
    /\ pc = "dirWait"
    /\ \E resp \in DirResponses(MaxUsers - Listed(responses)) :
         /\ responses' = Append(responses, resp)
         /\ IF resp.kind # "ok" \/ resp.users = <<>>
              THEN /\ pc' = "save"
                   /\ outstanding' = 0
                   /\ UNCHANGED << page, all_users, users, idx >>
              ELSE Continue(resp.users, 1)
    /\ UNCHANGED << argc, requested, lookups, file, fileWrites, exitCode >>
    /\ UNCHANGED << ovars, nvars >>

\* The external-badge endpoint answers (or the request raises)
ReceiveExternal ==
    /\ pc = "extWait"
    /\ \E resp \in ExtResponses :
         LET ret == fetch_github_external_badges(resp)
             user == users[idx]
             us == [users EXCEPT ![idx].badge_count = AddExternal(user, ret.value)]
         IN IF ret.raised
              THEN \* line 72: an exception in the loop body ends the loop
                   /\ pc' = "save"
                   /\ outstanding' = 0
                   /\ UNCHANGED << page, all_users, users, idx, lookups >>
              ELSE /\ lookups' = Append(lookups, [page |-> page, at |-> idx,
                                                  id |-> user.id,
                                                  failed |-> resp.kind # "ok",
                                                  returned |-> ret.value])
                   /\ Continue(us, idx + 1)
    /\ UNCHANGED << argc, requested, responses, file, fileWrites, exitCode >>
    /\ UNCHANGED << ovars, nvars >>

\* save_to_csv: one row per user
CsvRows(us) ==
    [k \in 1..Len(us) |-> [name |-> us[k].name, badge_count |-> GetBadgeCount(us[k])]]

\* A bug: an empty result is not saved.
MainSaveSkipsEmpty ==
    /\ pc = "save"
    /\ IF all_users = <<>>
         THEN UNCHANGED << file, fileWrites >>
         ELSE /\ file' = CsvRows(all_users)
              /\ fileWrites' = fileWrites + 1
    /\ exitCode' = 0
    /\ pc' = "exit"
    /\ UNCHANGED << argc, page, all_users, users, idx, requested, responses,
                    lookups, outstanding >>
    /\ UNCHANGED << ovars, nvars >>

\* A bug: an empty result is reported as a failure.
MainSaveFailsEmpty ==
    /\ pc = "save"
    /\ file' = CsvRows(all_users)
    /\ fileWrites' = fileWrites + 1
    /\ exitCode' = IF all_users = <<>> THEN 1 ELSE 0
    /\ pc' = "exit"
    /\ UNCHANGED << argc, page, all_users, users, idx, requested, responses,
                    lookups, outstanding >>
    /\ UNCHANGED << ovars, nvars >>

\* main, lines 116-125: fetch_country_data has returned; save and exit 0
MainSave ==
    /\ pc = "save"
    /\ file' = CsvRows(all_users)
    /\ fileWrites' = fileWrites + 1
    /\ exitCode' = 0
    /\ pc' = "exit"
    /\ UNCHANGED << argc, page, all_users, users, idx, requested, responses,
                    lookups, outstanding >>
    /\ UNCHANGED << ovars, nvars >>

\* ------------------------------------------------- properties of the fetch
Returned == pc \in {"save", "exit"} /\ argc >= 2

\* A page that ends pagination: a failed request, a payload that cannot be
\* processed, or an empty user list.
EndsPagination(resp) ==
    resp.kind # "ok" \/ resp.users = <<>> \/ ~AllObjects(resp.users)

\* The users, as sent by the directory, of the pages before the first page
\* that ends pagination.
RECURSIVE UsersBeforeEnd(_)
UsersBeforeEnd(rs) ==
    IF rs = <<>> \/ EndsPagination(Head(rs)) THEN <<>>
    ELSE Head(rs).users \o UsersBeforeEnd(Tail(rs))

Identity(us) == [k \in 1..Len(us) |-> [name |-> us[k].name, id |-> us[k].id]]

\* C1: the result of fetch_country_data is the concatenation, in page order
\* and within-page order, of the users of the successful non-empty pages that
\* precede the first empty or failed page; nothing later, dropped or repeated.
C1_ResultIsConcatenation ==
    Returned => Identity(all_users) = Identity(UsersBeforeEnd(responses))

C1_Witness ==
    /\ pc = "exit"
    /\ Len(responses) = 2
    /\ responses[1].kind = "ok" /\ Len(responses[1].users) = 2
    /\ responses[2].kind = "http"
    /\ Len(all_users) = 2
    /\ all_users[1].name # all_users[2].name

\* Number of users accumulated before page p
RECURSIVE Offset(_)
Offset(p) == IF p <= 1 THEN 0 ELSE Offset(p - 1) + Len(responses[p - 1].users)

\* C2: a user with an id on an accumulated page ends with badge_count =
\* primary count (0 if absent) + the value its external lookup returned, and
\* a failed lookup contributes 0.
C2_BadgeCountIsSum ==
    \A p \in 1..(page - 1) : \A k \in 1..Len(responses[p].users) :
        LET sent == responses[p].users[k]
            kept == all_users[Offset(p) + k]
        IN sent.id # NoId =>
             \E l \in 1..Len(lookups) :
                /\ lookups[l].page = p /\ lookups[l].at = k
                /\ kept.badge_count = GetBadgeCount(sent) + lookups[l].returned
                /\ lookups[l].failed => kept.badge_count = GetBadgeCount(sent)

C2_Witness ==
    /\ pc = "exit"
    /\ \E l, m \in 1..Len(lookups) :
          /\ lookups[l].failed /\ lookups[l].page < page
          /\ ~lookups[m].failed /\ lookups[m].returned = 1 /\ lookups[m].page < page
          /\ responses[lookups[m].page].users[lookups[m].at].badge_count = 2

\* C3: a failed external lookup never ends pagination: its page is still
\* accumulated in full and the next page is still requested.
C3_ExternalFailureNeverAborts ==
    /\ Returned => EndsPagination(responses[Len(responses)])
    /\ \A l \in 1..Len(lookups) :
          (lookups[l].failed /\ AllObjects(responses[lookups[l].page].users)
             /\ pc \in {"loop", "dirWait", "save", "exit"})
          => /\ Len(all_users) >= Offset(lookups[l].page + 1)
             /\ \E r \in 1..Len(requested) : requested[r] = lookups[l].page + 1
                    \/ (pc = "loop" /\ page = lookups[l].page + 1)

C3_Witness ==
    /\ pc = "exit"
    /\ Len(lookups) >= 2
    /\ lookups[1].failed /\ ~lookups[2].failed
    /\ lookups[1].page = 1 /\ lookups[2].page = 2
    /\ Len(requested) = 3

\* C8: the single-country run exits 1 exactly when the argument is missing,
\* and then fetches nothing and writes nothing; with an argument it exits 0
\* however pagination ended.
C8_ExitCodeLaw ==
    pc = "exit" =>
       /\ exitCode \in {0, 1}
       /\ exitCode = 1 <=> argc < 2
       /\ argc < 2 => requested = <<>> /\ fileWrites = 0

C8_Witness ==
    /\ pc = "exit" /\ argc = 2 /\ exitCode = 0
    /\ Len(responses) = 1 /\ responses[1].kind # "ok"
    /\ all_users = <<>>

\* C9: with an argument the file is written exactly once, after pagination
\* has ended, also for an empty result and after a failed page; it is never
\* written while pages are being fetched.
C9_FileWrittenOnceAtEnd ==
    /\ pc \in {"main", "loop", "dirWait", "extWait", "save"} => fileWrites = 0
    /\ (pc = "exit" /\ argc >= 2) =>
          fileWrites = 1 /\ Len(file) = Len(all_users)

C9_Witness ==
    /\ pc = "exit" /\ fileWrites = 1 /\ file = <<>>
    /\ responses[Len(responses)].kind = "transport"

\* C14: the pages requested are 1, 2, ..., k in this order; a page is
\* requested only after the page before it was received and processed as a
\* non-empty page, so no page is requested twice and none after an empty or
\* failed page.
C14_PagesInOrderNoRetry ==
    /\ \A r \in 1..Len(requested) : requested[r] = r
    /\ Len(requested) \in { Len(responses), Len(responses) + 1 }
    /\ Len(requested) = Len(responses) + 1 <=> pc = "dirWait"
    /\ \A r \in 1..(Len(requested) - 1) : ~EndsPagination(responses[r])
    /\ Returned => Len(requested) = Len(responses)

C14_Witness ==
    /\ pc = "exit"
    /\ requested = << 1, 2, 3 >>
    /\ responses[3].kind = "parse"
    /\ Len(all_users) = 3

\* C15: the network calls of one country's fetch are sequential: at most one
\* request is outstanding, a user's external lookup is made only for a user of
\* a page already received, and page n+1 is requested only after the lookup
\* of every user with an id on page n has completed.
C15_CallsAreSequential ==
    /\ outstanding \in {0, 1}
    /\ outstanding = 1 <=> pc \in {"dirWait", "extWait"}
    /\ pc = "extWait" =>
         /\ Len(requested) = Len(responses)
         /\ page = Len(responses)
         /\ idx \in 1..Len(responses[page].users)
         /\ users[idx].id = responses[page].users[idx].id
         /\ users[idx].id # NoId
    /\ \A n \in 1..Len(lookups) :
         LET l == lookups[n] IN
         /\ l.page \in 1..Len(responses)
         /\ l.at \in 1..Len(responses[l.page].users)
         /\ responses[l.page].users[l.at].id = l.id
    /\ \A r \in 2..Len(requested) :
         \A k \in 1..Len(responses[r - 1].users) :
            responses[r - 1].users[k].id # NoId =>
               \E n \in 1..Len(lookups) :
                  lookups[n].page = r - 1 /\ lookups[n].at = k

C15_Witness ==
    /\ pc = "dirWait"
    /\ Len(requested) = 2
    /\ Len(lookups) = 2
    /\ lookups[1].page = 1 /\ lookups[2].page = 1

\* Users with an id among us
WithId(us) == Cardinality({ k \in 1..Len(us) : us[k].id # NoId })

\* The records of a page that precede its first record that is not an object
RECURSIVE BeforeFirstBad(_)
BeforeFirstBad(us) ==
    IF us = <<>> \/ ~Head(us).object THEN <<>>
    ELSE << Head(us) >> \o BeforeFirstBad(Tail(us))

\* Users with an id on the pages that were received with a non-empty list
RECURSIVE IdsOnReceivedPages(_)
IdsOnReceivedPages(rs) ==
    IF rs = <<>> THEN 0
    ELSE (IF Head(rs).kind = "ok" THEN WithId(Head(rs).users) ELSE 0)
         + IdsOnReceivedPages(Tail(rs))

\* Users with an id that the loop over a received page reaches
RECURSIVE IdsReached(_)
IdsReached(rs) ==
    IF rs = <<>> THEN 0
    ELSE (IF Head(rs).kind = "ok" THEN WithId(BeforeFirstBad(Head(rs).users)) ELSE 0)
         + IdsReached(Tail(rs))

RaisedInPage ==
    /\ Returned
    /\ responses # <<>>
    /\ responses[Len(responses)].kind = "ok"
    /\ responses[Len(responses)].users # <<>>
    /\ ~AllObjects(responses[Len(responses)].users)

\* C18: accumulation of a page is all-or-nothing: when processing a received
\* page raises, the step that ends pagination leaves the accumulated list as
\* it was, and the result holds exactly the users of the earlier pages and
\* none of the page that raised.
C18_PageIsAllOrNothing ==
    /\ [](RaisedInPage =>
            /\ Len(all_users) = Listed(SubSeq(responses, 1, Len(responses) - 1))
            /\ Identity(all_users) = Identity(UsersBeforeEnd(responses)))
    /\ [][(~RaisedInPage /\ RaisedInPage') => all_users' = all_users]_vars

C18_Witness ==
    /\ pc = "exit"
    /\ RaisedInPage
    /\ Len(responses) = 2
    /\ Len(all_users) = 1
    /\ Len(lookups) = 2
    /\ lookups[2].page = 2
    /\ lookups[2].returned = 1
    /\ users[1].badge_count # responses[2].users[1].badge_count
    /\ Len(file) = 1

NextCountry ==
    \/ MainUsage
    \/ MainFetch
    \/ RequestPage
    \/ ReceivePage
    \/ ReceiveExternal
    \/ MainSave

\* ------------------------------------------------------------ orchestrator
NumCountries == 11   \* largest number of countries in CONTINENT_MAP
MaxFailed == 1       \* units of one run that end in failure

max_workers == 10

large_countries == { "Brazil", "India", "United States", "China", "Germany",
                     "United Kingdom", "France", "Canada", "Japan" }

\* Title-cased keys of CONTINENT_MAP, sorted
AllCountries ==
    << "Argentina", "Australia", "Brazil", "Canada", "Chile", "China",
       "France", "Germany", "India", "Japan", "Mexico", "Portugal",
       "United States" >>

CountrySet == { AllCountries[k] : k \in 1..Len(AllCountries) }

\* get_all_countries(): the sorted list of the countries of the map
get_all_countries(n) == SubSeq(AllCountries, 1, n)

Range(q) == { q[k] : k \in 1..Len(q) }

ExitCodes == { 0, 1 }

None == [text |-> "None", n |-> 0]

NoEnd == [how |-> "none", code |-> 0]

NoReport == [country |-> "", error |-> None]

\* No fetch_data.py process exists
NoOrchestrator ==
    /\ countries = <<>>
    /\ opc = "none"
    /\ queue = <<>>
    /\ phase = [c \in CountrySet |-> "new"]
    /\ alive = {}
    /\ ended = [c \in CountrySet |-> "no"]
    /\ failedEnd = NoEnd
    /\ reported = NoReport
    /\ success_count = 0
    /\ failed_countries = <<>>
    /\ orchExit = -1

InitOrchestrator(lists) ==
    /\ countries \in lists
    /\ opc = "start"
    /\ queue = <<>>
    /\ phase = [c \in CountrySet |-> "new"]
    /\ alive = {}
    /\ ended = [c \in CountrySet |-> "no"]
    /\ failedEnd = NoEnd
    /\ reported = NoReport
    /\ success_count = 0
    /\ failed_countries = <<>>
    /\ orchExit = -1

\* A bug: every country gets the short deadline.
TimeoutAlwaysShort(country) == 120

\* line 30: the deadline of a country's subprocess
Timeout(country) == IF country \in large_countries THEN 900 ELSE 120

\* A bug: a timeout is reported as a success.
OutcomeTimeoutSucceeds(country, end) ==
    IF end.how = "exit" /\ end.code # 0
      THEN [country |-> country, status |-> "failed",
            error |-> [text |-> "Exit code", n |-> end.code]]
    ELSE IF end.how = "raise"
      THEN [country |-> country, status |-> "failed",
            error |-> [text |-> "OSError", n |-> 0]]
    ELSE [country |-> country, status |-> "success", error |-> None]

\* fetch_country_data, lines 40-47: the tuple returned for an ending of the
\* subprocess.run call
Outcome(country, end) ==
    IF end.how = "exit" /\ end.code = 0
      THEN [country |-> country, status |-> "success", error |-> None]
    ELSE IF end.how = "exit"
      THEN [country |-> country, status |-> "failed",
            error |-> [text |-> "Exit code", n |-> end.code]]
    ELSE IF end.how = "timeout"
      THEN [country |-> country, status |-> "failed",
            error |-> [text |-> "Timeout", n |-> Timeout(country)]]
    ELSE [country |-> country, status |-> "failed",
          error |-> [text |-> "OSError", n |-> 0]]

\* Countries whose worker thread is inside fetch_country_data
Busy == { c \in CountrySet : phase[c] = "running" }

\* A bug: a thread per submitted task.
WorkerFreeUnbounded == TRUE

\* A bug: the pool is one worker short.
WorkerFreeOffByOne == Cardinality(Busy) < max_workers - 1

\* line 69: ThreadPoolExecutor(max_workers): a worker takes the next task
\* only when fewer than max_workers tasks are being run
WorkerFree == Cardinality(Busy) < max_workers

Failed == { c \in CountrySet : ended[c] = "other" }

\* Units whose pagination does not end by itself
Hung == { c \in CountrySet : ended[c] = "hangs" }

MayFail == Len(failed_countries) + Cardinality(Hung) < MaxFailed

\* main, lines 57-74: enumerate the countries and submit one task for each
SubmitAll ==
    /\ opc = "start"
    /\ opc' = "collect"
    /\ queue' = countries
    /\ phase' = [c \in CountrySet |-> IF c \in Range(countries) THEN "queued" ELSE "new"]
    /\ UNCHANGED << countries, alive, ended, failedEnd, reported, success_count,
                    failed_countries, orchExit >>

\* A worker takes the oldest task and subprocess.run starts the unit
Start(c) ==
    /\ queue # <<>> /\ c = Head(queue)
    /\ WorkerFree
    /\ queue' = Tail(queue)
    /\ phase' = [phase EXCEPT ![c] = "running"]
    /\ alive' = alive \cup {c}
    /\ UNCHANGED << countries, opc, ended, failedEnd, reported, success_count,
                    failed_countries, orchExit >>

\* A bug: a failed unit is neither counted nor listed.
CompleteDropsFailure(c, end) ==
    LET res == Outcome(c, end) IN
    /\ phase' = [phase EXCEPT ![c] = "done"]
    /\ ended' = [ended EXCEPT ![c] =
                    IF end.how = "exit" /\ end.code = 0 THEN "zero" ELSE "other"]
    /\ IF res.status = "success"
         THEN success_count' = success_count + 1
         ELSE success_count' = success_count
    /\ UNCHANGED << failed_countries, reported, failedEnd >>
    /\ UNCHANGED << countries, opc, orchExit >>

\* The call of fetch_country_data(c) returns the tuple for the ending end,
\* and as_completed hands the finished future to main, lines 77-85
Complete(c, end) ==
    LET res == Outcome(c, end) IN
    /\ phase' = [phase EXCEPT ![c] = "done"]
    /\ ended' = [ended EXCEPT ![c] =
                    IF end.how = "exit" /\ end.code = 0 THEN "zero" ELSE "other"]
    /\ IF res.status = "success"
         THEN /\ success_count' = success_count + 1
              /\ UNCHANGED << failed_countries, reported, failedEnd >>
         ELSE /\ failed_countries' = Append(failed_countries, res.country)
              /\ reported' = [country |-> res.country, error |-> res.error]
              /\ failedEnd' = end
              /\ UNCHANGED success_count
    /\ UNCHANGED << countries, opc, orchExit >>

\* A worker takes the oldest task and subprocess.run raises at launch
LaunchRaises(c) ==
    /\ queue # <<>> /\ c = Head(queue)
    /\ WorkerFree
    /\ MayFail
    /\ queue' = Tail(queue)
    /\ alive' = alive
    /\ Complete(c, [how |-> "raise", code |-> 0])

\* The subprocess exits with status rc
Exits(c, rc) ==
    /\ phase[c] = "running"
    /\ c \notin Hung
    /\ rc # 0 => MayFail
    /\ alive' = alive \ {c}
    /\ queue' = queue
    /\ Complete(c, [how |-> "exit", code |-> rc])

\* A bug: the subprocess is left running after its deadline.
TimesOutNoKill(c) ==
    /\ phase[c] = "running"
    /\ c \in Hung \/ MayFail
    /\ alive' = alive
    /\ queue' = queue
    /\ Complete(c, [how |-> "timeout", code |-> Timeout(c)])

\* A bug: subprocess.run is called without a deadline.
TimesOutNever(c) ==
    /\ FALSE
    /\ UNCHANGED ovars

\* The deadline passes: subprocess.run kills the subprocess, waits for it
\* and raises TimeoutExpired; code is the number of seconds it has run
TimesOut(c) ==
    /\ phase[c] = "running"
    /\ c \in Hung \/ MayFail
    /\ alive' = alive \ {c}
    /\ queue' = queue
    /\ Complete(c, [how |-> "timeout", code |-> Timeout(c)])

\* The remote keeps returning non-empty pages to the unit of c: its
\* pagination loop does not end and the subprocess does not exit by itself
Hangs(c) ==
    /\ phase[c] = "running"
    /\ ended[c] = "no"
    /\ MayFail
    /\ ended' = [ended EXCEPT ![c] = "hangs"]
    /\ UNCHANGED << countries, opc, queue, phase, alive, failedEnd, reported,
                    success_count, failed_countries, orchExit >>

\* The deadline of a unit that does not exit by itself
Deadline(c) ==
    /\ c \in Hung
    /\ TimesOut(c)

\* A bug: the exit status does not depend on the failures.
ExitStatusZero(failed) == 0

\* line 102: 0 if len(failed_countries) == 0 else 1
ExitStatus(failed) == IF Len(failed) = 0 THEN 0 ELSE 1

\* main, lines 87-102: every future was yielded; summary and exit
Finish ==
    /\ opc = "collect"
    /\ \A c \in Range(countries) : phase[c] = "done"
    /\ opc' = "exit"
    /\ orchExit' = ExitStatus(failed_countries)
    /\ UNCHANGED << countries, queue, phase, alive, ended, failedEnd, reported,
                    success_count, failed_countries >>

\* ------------------------------------------- properties of the orchestrator
Enumerated == Range(countries)

\* C4: at most 10 units (subprocess invocations) are in flight at any moment,
\* and a unit that timed out is no longer in flight once its worker is free
\* to start another country.
C4_AtMostTenInFlight ==
    /\ Cardinality(alive) <= 10
    /\ \A c \in alive : ended[c] = "no"
    /\ failedEnd.how = "timeout" => reported.country \notin alive

C4_Witness ==
    /\ Len(countries) > 10
    /\ Cardinality(alive) = 10
    /\ countries[11] \in alive
    /\ failedEnd.how = "timeout"

\* C5: a unit that exceeds its deadline, exits non-zero or raises at launch
\* is recorded as failed with its diagnostic, every country's recorded
\* outcome is decided by its own unit alone, and at the end every country's
\* unit was run and recorded.
C5_FailureIsIsolated ==
    /\ failedEnd.how = "timeout" =>
          reported.error.text = "Timeout" /\ reported.error.n \in {120, 900}
    /\ failedEnd.how = "exit" =>
          /\ failedEnd.code # 0
          /\ reported.error = [text |-> "Exit code", n |-> failedEnd.code]
    /\ failedEnd.how = "raise" => reported.error.text = "OSError"
    /\ failed_countries # <<>> =>
          /\ failedEnd.how # "none"
          /\ reported.country = failed_countries[Len(failed_countries)]
    /\ \A c \in Enumerated :
          /\ ended[c] = "zero" => c \notin Range(failed_countries)
          /\ ended[c] = "other" => c \in Range(failed_countries)
    /\ success_count = Cardinality({ c \in Enumerated : ended[c] = "zero" })
    /\ opc = "exit" =>
          \A c \in Enumerated : phase[c] = "done" /\ ended[c] # "no"

C5_Witness ==
    /\ opc = "exit"
    /\ Len(countries) > 10
    /\ ended[countries[3]] = "other"
    /\ reported = [country |-> countries[3],
                   error |-> [text |-> "Timeout", n |-> 900]]
    /\ success_count = Len(countries) - 1

\* A country waits for a worker that every worker of the pool denies it.
Blocked == queue # <<>> /\ ~WorkerFree

\* C6 as stated: no country ever waits for a worker held by a unit that ends
\* in failure, that is, no unit that has run ends in failure while a country
\* is blocked.
C6_FailingUnitNeverDelays ==
    [][ \A c \in CountrySet :
          (phase[c] = "running" /\ phase'[c] = "done" /\ ended'[c] = "other")
             => ~Blocked ]_vars

\* C6 amended: a failing unit holds no worker after it ended, the first 10
\* countries never wait for a worker, and a later country waits only while
\* 10 units are in flight.
C6_DelayOnlyByFullPool ==
    /\ \A c \in Failed : c \notin Busy /\ c \notin alive
    /\ \A k \in 1..Len(countries) :
          (k <= 10 /\ phase[countries[k]] = "queued") => WorkerFree
    /\ Blocked => Cardinality(alive) = 10 /\ Len(countries) > 10

C6_Witness ==
    /\ Len(countries) > 10
    /\ phase[countries[11]] = "queued"
    /\ Failed # {} /\ failedEnd.how = "timeout"
    /\ Cardinality(Busy) = 9

\* C7: the multi-country run exits 0 exactly when no country failed and 1
\* otherwise, only after every outcome was collected, and the failed list
\* is exactly the set of failed countries.
C7_OrchestratorExitLaw ==
    opc = "exit" =>
       /\ orchExit \in {0, 1}
       /\ orchExit = 0 <=> Failed = {}
       /\ \A c \in Enumerated : phase[c] = "done"
       /\ Range(failed_countries) = Failed
       /\ Len(failed_countries) = Cardinality(Failed)

C7_Witness ==
    /\ opc = "exit" /\ orchExit = 1
    /\ Len(countries) > 10
    /\ failed_countries = << countries[2] >>
    /\ reported.error = [text |-> "Exit code", n |-> 1]

\* C11: main receives exactly one structured outcome for every country:
\* success_count plus the number of failed countries is the number of
\* outcomes collected so far, no country is counted twice, and at the end
\* the sum is the number of countries.
C11_OneOutcomePerCountry ==
    LET done == { c \in Enumerated : phase[c] = "done" } IN
    /\ success_count + Len(failed_countries) = Cardinality(done)
    /\ Cardinality(Range(failed_countries)) = Len(failed_countries)
    /\ Range(failed_countries) \subseteq done
    /\ \A c \in CountrySet : phase[c] = "done" <=> ended[c] # "no"
    /\ opc = "exit" => success_count + Len(failed_countries) = Len(countries)

C11_Witness ==
    /\ opc = "exit"
    /\ Len(countries) > 10
    /\ failedEnd.how = "raise"
    /\ Len(failed_countries) = 1
    /\ success_count = Len(countries) - 1

\* The countries the deadline of 900 is stated for
StatedLarge == { "Brazil", "India", "United States", "China", "Germany",
                 "United Kingdom", "France", "Canada", "Japan" }

StatedDeadline(country) == IF country \in StatedLarge THEN 900 ELSE 120

\* C12: the deadline is 900 for exactly the nine large countries and 120 for
\* every other name, and a unit recorded as failed by timeout has run for
\* the deadline of its own country.
C12_DeadlineByCountry ==
    /\ \A name \in CountrySet \cup StatedLarge \cup {"", "brazil", "Uk"} :
          Timeout(name) = StatedDeadline(name)
    /\ failedEnd.how = "timeout" =>
          /\ failedEnd.code = StatedDeadline(reported.country)
          /\ reported.error = [text |-> "Timeout",
                                n |-> StatedDeadline(reported.country)]
    /\ reported.error.text = "Timeout" => failedEnd.how = "timeout"

C12_Witness ==
    /\ failedEnd = [how |-> "timeout", code |-> 120]
    /\ reported = [country |-> "Chile", error |-> [text |-> "Timeout", n |-> 120]]
    /\ \E c \in alive : Timeout(c) = 900

CountryLists == { get_all_countries(n) : n \in {1, max_workers, NumCountries} }

InitOrch == InitOrchestrator(CountryLists) /\ NoProcess /\ NoNames

NextOrch ==
    \/ SubmitAll /\ UNCHANGED << cvars, nvars >>
    \/ \E c \in CountrySet : Start(c) /\ UNCHANGED << cvars, nvars >>
    \/ \E c \in CountrySet : LaunchRaises(c) /\ UNCHANGED << cvars, nvars >>
    \/ \E c \in CountrySet : \E rc \in ExitCodes : Exits(c, rc) /\ UNCHANGED << cvars, nvars >>
    \/ \E c \in CountrySet : TimesOut(c) /\ UNCHANGED << cvars, nvars >>
    \/ Finish /\ UNCHANGED << cvars, nvars >>

SpecOrch == InitOrch /\ [][NextOrch]_vars

\* ------------------------------------- the orchestrator with fair scheduling
\* A unit either runs to its end by itself or hangs and meets its deadline;
\* the endings by a non-zero status or a failed launch are left to SpecOrch.
NextLive ==
    \/ SubmitAll /\ UNCHANGED << cvars, nvars >>
    \/ \E c \in CountrySet : Start(c) /\ UNCHANGED << cvars, nvars >>
    \/ \E c \in CountrySet : Exits(c, 0) /\ UNCHANGED << cvars, nvars >>
    \/ \E c \in CountrySet : Hangs(c) /\ UNCHANGED << cvars, nvars >>
    \/ \E c \in CountrySet : Deadline(c) /\ UNCHANGED << cvars, nvars >>
    \/ Finish /\ UNCHANGED << cvars, nvars >>

\* Runs of one country and of one country more than the pool has workers
InitLive ==
    /\ InitOrchestrator({ get_all_countries(n) : n \in {1, max_workers + 1} })
    /\ NoProcess
    /\ NoNames

\* The main thread, the workers, the subprocesses and the deadline timers
\* all keep running: the run does not stop while a step is possible.
SpecLive == InitLive /\ [][NextLive]_vars /\ WF_vars(NextLive)

\* C17: every unit reaches a recorded outcome and the orchestrator reports
\* and exits, also when a unit does not end by itself: that unit is killed
\* at its deadline and recorded as failed with a timeout, and no country
\* stays queued.
C17_EveryUnitEndsAndRunExits ==
    /\ <>(/\ opc = "exit"
          /\ queue = <<>>
          /\ alive = {}
          /\ \A c \in Enumerated : phase[c] = "done"
          /\ success_count + Len(failed_countries) = Len(countries))
    /\ [][\A c \in CountrySet :
            (c \in Hung /\ ended'[c] # "hangs") =>
               /\ c \notin alive'
               /\ failed_countries' = Append(failed_countries, c)
               /\ reported' = [country |-> c,
                               error |-> [text |-> "Timeout", n |-> Timeout(c)]]]_vars

C17_Witness ==
    /\ opc = "exit"
    /\ Len(countries) > max_workers
    /\ failedEnd.how = "timeout"
    /\ failed_countries = << countries[Len(countries)] >>
    /\ success_count = Len(countries) - 1
    /\ orchExit = 1

\* ------------------------------------------------- one unit, in full detail
\* cert-github.sh <country> runs fetch_country.py with the country as its
\* argument and ends with its exit status.
StartProcess(c) ==
    /\ Start(c)
    /\ pc = "none"
    /\ pc' = "main"
    /\ argc' = 2
    /\ UNCHANGED << page, all_users, users, idx, requested, responses,
                    lookups, outstanding, file, fileWrites, exitCode >>
    /\ UNCHANGED nvars

\* The unit's process has called sys.exit
ProcessExits(c) ==
    /\ pc = "exit"
    /\ Exits(c, exitCode)
    /\ pc' = "reaped"
    /\ UNCHANGED << argc, page, all_users, users, idx, requested, responses,
                    lookups, outstanding, file, fileWrites, exitCode >>
    /\ UNCHANGED nvars

\* The memory of a process that was killed or died is gone; the file it may
\* have written stays.
Gone ==
    /\ pc' = "killed"
    /\ argc' = 0
    /\ page' = 1
    /\ all_users' = <<>>
    /\ users' = <<>>
    /\ idx' = 0
    /\ requested' = <<>>
    /\ responses' = <<>>
    /\ lookups' = <<>>
    /\ outstanding' = 0
    /\ exitCode' = -1
    /\ UNCHANGED << file, fileWrites >>
    /\ UNCHANGED nvars

\* The unit's process dies before it reaches sys.exit
ProcessAborts(c) ==
    /\ pc \notin {"none", "exit", "reaped", "killed"}
    /\ \E rc \in ExitCodes \ {0} : Exits(c, rc)
    /\ Gone

\* The deadline passes while the unit's process runs
ProcessTimesOut(c) ==
    /\ pc \notin {"none", "reaped", "killed"}
    /\ TimesOut(c)
    /\ Gone

DirectoryFailed == \E r \in 1..Len(responses) : responses[r].kind # "ok"

AllLookupsFailed ==
    lookups # <<>> /\ \A l \in 1..Len(lookups) : lookups[l].failed

\* C10: failures of the directory and of the external-badge endpoint stay
\* inside the unit: a unit that ran to its end is recorded as success and
\* the run exits 0, also when its first page failed or all its lookups
\* failed; a country is failed only by a timeout, an abnormal exit or a
\* failed launch.
C10_EndpointFailuresStayInside ==
    \A c \in Enumerated : phase[c] = "done" =>
       /\ pc = "reaped" =>
             /\ ended[c] = "zero"
             /\ success_count = 1 /\ failed_countries = <<>>
             /\ reported = NoReport
             /\ opc = "exit" => orchExit = 0
       /\ failed_countries # <<>> =>
             /\ pc \in {"killed", "none"}
             /\ failedEnd.how \in {"timeout", "raise"}
                  \/ (failedEnd.how = "exit" /\ failedEnd.code # 0)

C10_Witness ==
    /\ opc = "exit" /\ orchExit = 0
    /\ success_count = 1
    /\ pc = "reaped"
    /\ Len(responses) = 1 /\ responses[1].kind = "http"
    /\ all_users = <<>> /\ fileWrites = 1

InitUnit == InitOrchestrator({ get_all_countries(1) }) /\ NoProcess /\ NoNames

NextUnit ==
    \/ SubmitAll /\ UNCHANGED << cvars, nvars >>
    \/ \E c \in CountrySet : StartProcess(c)
    \/ \E c \in CountrySet : LaunchRaises(c) /\ UNCHANGED << cvars, nvars >>
    \/ MainFetch
    \/ RequestPage
    \/ ReceivePage
    \/ ReceiveExternal
    \/ MainSave
    \/ \E c \in CountrySet : ProcessExits(c)
    \/ \E c \in CountrySet : ProcessAborts(c)
    \/ \E c \in CountrySet : ProcessTimesOut(c)
    \/ Finish /\ UNCHANGED << cvars, nvars >>

SpecUnit == InitUnit /\ [][NextUnit]_vars

\* ------------------------------------------------ country names and files
MaxKeys == 2         \* keys of CONTINENT_MAP
MaxKeyLen == 3       \* characters of one key

Letters == { "a", "b" }

KeyChars == Letters \cup { " ", "-" }

\* The country names CONTINENT_MAP may have as keys: lower-case words
\* separated by spaces or hyphens
KeyPool ==
    { w \in SeqsUpTo(KeyChars, MaxKeyLen) :
         w # <<>> /\ w[1] \in Letters /\ w[Len(w)] \in Letters }

RECURSIVE KeySets(_)
KeySets(n) ==
    IF n = 0 THEN { {} }
    ELSE LET smaller == KeySets(n - 1)
         IN smaller \cup { S \cup {w} : S \in smaller, w \in KeyPool }

\* str.upper and str.lower of one character
Upper(ch) == CASE ch = "a" -> "A" [] ch = "b" -> "B" [] OTHER -> ch

Lower(ch) == CASE ch = "A" -> "a" [] ch = "B" -> "b" [] OTHER -> ch

IsCased(ch) == ch \in { "a", "b", "A", "B" }

\* str.title: a cased character is upper case after an uncased one (or at
\* the start) and lower case after a cased one
Title(w) ==
    [k \in 1..Len(w) |->
        IF k = 1 \/ ~IsCased(w[k - 1]) THEN Upper(w[k]) ELSE Lower(w[k])]

\* The code point of a character
Ord(ch) ==
    CASE ch = " " -> 32 [] ch = "-" -> 45 [] ch = "A" -> 65 [] ch = "B" -> 66
      [] ch = "a" -> 97 [] ch = "b" -> 98

\* Python's order of strings
RECURSIVE StrLess(_, _)
StrLess(v, w) ==
    IF w = <<>> THEN FALSE
    ELSE IF v = <<>> THEN TRUE
    ELSE IF Head(v) # Head(w) THEN Ord(Head(v)) < Ord(Head(w))
    ELSE StrLess(Tail(v), Tail(w))

\* sorted(S)
RECURSIVE Sorted(_)
Sorted(S) ==
    IF S = {} THEN <<>>
    ELSE LET least == CHOOSE v \in S : \A w \in S \ {v} : StrLess(v, w)
         IN << least >> \o Sorted(S \ {least})

\* get_all_countries over the keys of the map: title case, set, sorted
TitledSorted(keys) == Sorted({ Title(w) : w \in keys })

\* A bug: spaces are removed instead of replaced.
SlugDropsSpaces(country) ==
    SelectSeq([k \in 1..Len(country) |-> Lower(country[k])],
              LAMBDA ch : ch # " ")

\* save_to_csv, line 82: country.lower().replace(' ', '-')
Slug(country) ==
    [k \in 1..Len(country) |->
        IF Lower(country[k]) = " " THEN "-" ELSE Lower(country[k])]

\* save_to_csv, line 83: the path of the country's file
OutputFile(country) == << "datasource/github-certs-" >> \o Slug(country) \o << ".csv" >>

InitNames ==
    /\ map_keys \in KeySets(MaxKeys) \ { {} }
    /\ names = <<>>
    /\ output_file = {}

\* main, line 57: countries = get_all_countries()
GetAllCountries ==
    /\ names = <<>>
    /\ names' = TitledSorted(map_keys)
    /\ UNCHANGED << map_keys, output_file >>

\* The unit of the k-th country opens its file for writing
SaveToCsv(k) ==
    /\ k \in 1..Len(names)
    /\ \A f \in output_file : f.country # names[k]
    /\ output_file' = output_file \cup
                        { [country |-> names[k], path |-> OutputFile(names[k])] }
    /\ UNCHANGED << map_keys, names >>

\* C13 as stated: the files of two distinct enumerated countries have
\* distinct paths.
C13_DistinctCountriesDistinctFiles ==
    \A f, g \in output_file : f.country # g.country => f.path # g.path

\* A name with every space written as a hyphen
Hyphened(w) == [k \in 1..Len(w) |-> IF w[k] = " " THEN "-" ELSE w[k]]

\* C13 amended: the enumerated names are distinct, and the files of two of
\* them have the same path exactly when the names differ only in having a
\* space where the other has a hyphen.
C13_SameFileOnlyBySpaceForHyphen ==
    /\ \A j, k \in 1..Len(names) : j # k => names[j] # names[k]
    /\ \A f, g \in output_file :
          f.path = g.path <=> Hyphened(f.country) = Hyphened(g.country)

C13_Witness ==
    \E f, g \in output_file :
       /\ f.country = << "A", " ", "B" >>
       /\ g.country = << "A", "-", "A" >>
       /\ f.path = << "datasource/github-certs-", "a", "-", "b", ".csv" >>
       /\ f.path # g.path

NextNames ==
    \/ GetAllCountries /\ UNCHANGED << cvars, ovars >>
    \/ \E k \in 1..MaxKeys : SaveToCsv(k) /\ UNCHANGED << cvars, ovars >>

InitNameRun == InitNames /\ NoProcess /\ NoOrchestrator

SpecNames == InitNameRun /\ [][NextNames]_vars

\* ---------------------------------------------------------- specifications
Init == InitCountry /\ NoOrchestrator /\ NoNames

Next == NextCountry

Spec == Init /\ [][Next]_vars
====
